---- MODULE Spec2Model ----
(***************************************************************************)
(* Model of the edit-diff-patch workflow of ldc: editFile and yesOrNo of   *)
(* package cmd.  A byte string is a sequence of tokens; the scratch files  *)
(* of /tmp are a function from names to byte strings.                      *)
(***************************************************************************)
EXTENDS Integers, Sequences, FiniteSets, TLC

\* ---------------------------------------------------------------- bounds
\* Iterations of the retry loop explored (the loop itself has no cap).
MaxAttempts == 3
\* Trailing tokens a failed read of the scratch file may lose.
MaxLost == 1
\* Iterations explored of an editFile that runs beside a second one.
ConcAttempts == 2
\* Projects the API lists.
MaxProjects == 2

\* --------------------------------------------------- bytes and documents
Keys == {"name", "key"}
Vals == {"a", "b", "k"}

\* {"name":"a","key":"k"}
DocA == <<"{", "name", ":", "a", ",", "key", ":", "k", "}">>
\* the same document, keys reordered, with whitespace and a final newline
DocAWs == <<"{", " ", "key", ":", "k", ",", "name", ":", "a", "}", " ">>
\* {"name":"b","key":"k"} followed by a newline
DocB == <<"{", "name", ":", "b", ",", "key", ":", "k", "}", " ">>
\* {"name":"a"}
DocSmall == <<"{", "name", ":", "a", "}">>
\* {"name":"b"   (the closing brace is missing)
DocCut == <<"{", "name", ":", "b">>
\* {"name"}
DocBad == <<"{", "name", "}">>

\* the documents editFile can be handed: marshalled resources, always valid
Originals == {DocA, DocSmall}
\* what the user can leave in the scratch file when the editor exits
EditorOutputs == {DocAWs, DocB, DocSmall, DocCut, DocBad}
\* the lines the user can type at a prompt
Lines == {"", "y", "Y", "n", "yes", " y", "fixed typo"}

Prefixes(s) == {SubSeq(s, 1, n) : n \in 0..Len(s)}
\* what ioutil.ReadAll can return together with an error: the bytes read so far
PartialReads(s) == {q \in Prefixes(s) : Len(s) - Len(q) <= MaxLost}

\* strings.ToLower on the lines above
ToLower(s) == IF s = "Y" THEN "y" ELSE s

\* yesOrNo taking "yes" for an answer as well
yesOrNoWord(val) == val = "" \/ ToLower(val) = "y" \/ ToLower(val) = "yes"

\* yesOrNo applied to the line read from the console
yesOrNo(val) == val = "" \/ ToLower(val) = "y"

\* json.Unmarshal into a map: whitespace is skipped, the text must be one
\* object of "key":"value" members; a repeated key keeps its last value.
IsWs(t) == t = " "
Strip(s) == SelectSeq(s, LAMBDA t : ~IsWs(t))

RECURSIVE Members(_)
Members(m) ==
    IF Len(m) = 3
    THEN IF m[1] \in Keys /\ m[2] = ":" /\ m[3] \in Vals
         THEN [ok |-> TRUE, obj |-> {<<m[1], m[3]>>}]
         ELSE [ok |-> FALSE, obj |-> {}]
    ELSE IF Len(m) > 4 /\ m[Len(m) - 3] = ","
              /\ m[Len(m) - 2] \in Keys /\ m[Len(m) - 1] = ":" /\ m[Len(m)] \in Vals
         THEN LET rest == Members(SubSeq(m, 1, Len(m) - 4))
                  k == m[Len(m) - 2]
              IN  IF rest.ok
                  THEN [ok |-> TRUE,
                        obj |-> {p \in rest.obj : p[1] # k} \cup {<<k, m[Len(m)]>>}]
                  ELSE [ok |-> FALSE, obj |-> {}]
         ELSE [ok |-> FALSE, obj |-> {}]

Unmarshal(bytes) ==
    LET s == Strip(bytes)
    IN  IF Len(s) < 2 \/ s[1] # "{" \/ s[Len(s)] # "}"
        THEN [ok |-> FALSE, obj |-> {}]
        ELSE IF Len(s) = 2
             THEN [ok |-> TRUE, obj |-> {}]
             ELSE Members(SubSeq(s, 2, Len(s) - 1))

KeysOf(obj) == {p[1] : p \in obj}
ValueOf(obj, k) == (CHOOSE p \in obj : p[1] = k)[2]

\* the order in which the keys of a map are visited
KeyOrder == <<"key", "name">>
PathOf(k) == "/" \o k

\* first loop of the diff, keys KeyOrder[i..] of b: add a key a lacks,
\* replace a key whose value differs
RECURSIVE AddReplace(_, _, _)
AddReplace(a, b, i) ==
    IF i > Len(KeyOrder) THEN <<>>
    ELSE LET k == KeyOrder[i]
             here ==
               IF k \notin KeysOf(b) THEN <<>>
               ELSE IF k \notin KeysOf(a)
                    THEN <<[op |-> "add", path |-> PathOf(k), value |-> ValueOf(b, k)]>>
                    ELSE IF ValueOf(a, k) = ValueOf(b, k) THEN <<>>
                         ELSE <<[op |-> "replace", path |-> PathOf(k),
                                 value |-> ValueOf(b, k)]>>
         IN  here \o AddReplace(a, b, i + 1)

\* second loop of the diff: remove the keys of a that b lacks
RECURSIVE Removed(_, _, _)
Removed(a, b, i) ==
    IF i > Len(KeyOrder) THEN <<>>
    ELSE LET k == KeyOrder[i]
             here ==
               IF k \in KeysOf(a) /\ k \notin KeysOf(b)
               THEN <<[op |-> "remove", path |-> PathOf(k), value |-> "null"]>>
               ELSE <<>>
         IN  here \o Removed(a, b, i + 1)

\* CreatePatch without the loop over the keys that were deleted
CreatePatchNoRemove(a, b) ==
    LET da == Unmarshal(a)
        db == Unmarshal(b)
    IN  IF ~da.ok \/ ~db.ok
        THEN [err |-> "Invalid JSON Document", ops |-> <<>>]
        ELSE [err |-> "", ops |-> AddReplace(da.obj, db.obj, 1)]

\* jsonpatch.CreatePatch(a, b): an error when either text does not parse
CreatePatch(a, b) ==
    LET da == Unmarshal(a)
        db == Unmarshal(b)
    IN  IF ~da.ok \/ ~db.ok
        THEN [err |-> "Invalid JSON Document", ops |-> <<>>]
        ELSE [err |-> "",
              ops |-> AddReplace(da.obj, db.obj, 1) \o Removed(da.obj, db.obj, 1)]

\* ------------------------------------------------------------- editFile
VARIABLES
    pc,             \* position in editFile
    original,       \* parameter original
    current,        \* bytes written to the next scratch file
    patchOps,       \* result of the last CreatePatch (nil is <<>>)
    name,           \* name of the scratch file of this iteration (0: none yet)
    newData,        \* bytes read back from the scratch file
    fileErr,        \* whether ioutil.ReadAll returned an error
    fs,             \* the files of /tmp: name -> bytes, NoFile when absent
    result,         \* what editFile returned
    sharedLoopVar,  \* the build gives "for _, op := range" one op per loop;
                    \* drawn where that loop runs, line 172
    \* history of the run, read by the properties only
    orig0,          \* the bytes editFile was called with
    attempts,       \* iterations of the loop begun
    launches,       \* calls of os.StartProcess
    reads,          \* calls of ioutil.ReadAll
    diffs,          \* calls of jsonpatch.CreatePatch
    diffArgs,       \* arguments of the last CreatePatch
    edited,         \* what the scratch file held when the editor last exited
    promptAt,       \* iteration of the last yes/no prompt (0: none)
    saidNo,         \* the user answered no at a yes/no prompt
    commentPrompts, \* times "Enter comment: " was printed
    comment,        \* the line read at the comment prompt
    warnings,       \* times "Unable to delete temporary file" was printed
    failed,         \* the call whose error ended the run ("" when none)
    val,            \* yesOrNo: the line read, NoLine outside the call
    \* a second editFile running in the same process
    pc2,            \* its position ("off": there is none)
    name2,          \* its scratch file
    newData2,       \* the bytes it read back
    edited2,        \* what its editor left in its scratch file
    result2,        \* what it returned
    \* deleteProject
    dpc,            \* position in deleteProject ("off": not running)
    projects,       \* the keys of the projects the API lists
    args,           \* c.Args
    interactive,    \* the shell is interactive
    project,        \* the project getProjectArg returned, Nil for nil
    keyReads,       \* reads of project.Key
    confirms,       \* calls of confirmDelete
    deleteCalls,    \* keys passed to ProjectsApi.DeleteProject
    printed,        \* what deleteProject told the user
    panicked        \* the runtime panic that ended deleteProject ("": none)

vars == <<pc, original, current, patchOps, name, newData, fileErr, fs, result,
          sharedLoopVar, orig0, attempts, launches, reads, diffs, diffArgs,
          edited, promptAt, saidNo, commentPrompts, comment, warnings, failed,
          val, pc2, name2, newData2, edited2, result2, dpc, projects, args,
          interactive, project, keyReads, confirms, deleteCalls, printed,
          panicked>>

w2Vars == <<pc2, name2, newData2, edited2, result2>>
delVars == <<dpc, projects, args, interactive, project, keyReads, confirms,
             deleteCalls, printed, panicked>>
otherVars == <<w2Vars, delVars>>
editVars == <<pc, original, current, patchOps, name, newData, fileErr, fs,
              result, sharedLoopVar, orig0, attempts, launches, reads, diffs,
              diffArgs, edited, promptAt, saidNo, commentPrompts, comment,
              warnings, failed, val>>

Names == 1..MaxAttempts
NoFile == <<"ENOENT">>
NoResult == [kind |-> "running", patch |-> <<>>, comment |-> "", err |-> ""]

\* return nil, err
ReturnErr(e) == [kind |-> "error", patch |-> <<>>, comment |-> "", err |-> e]
\* return nil, nil
ReturnNil == [kind |-> "nil", patch |-> <<>>, comment |-> "", err |-> ""]
\* return &patchComment, nil
ReturnPatch(p, c) == [kind |-> "patch", patch |-> p, comment |-> c, err |-> ""]

\* no line: outside yesOrNo there is no val
NoLine == "<none>"
\* a nil *ldapi.Project
Nil == "<nil>"

\* no second editFile
Edit2Off ==
    /\ pc2 = "off"
    /\ name2 = 0
    /\ newData2 = <<>>
    /\ edited2 = <<>>
    /\ result2 = NoResult

\* no deleteProject
DeleteOff ==
    /\ dpc = "off"
    /\ projects = <<>>
    /\ args = <<>>
    /\ interactive = FALSE
    /\ project = Nil
    /\ keyReads = 0
    /\ confirms = 0
    /\ deleteCalls = <<>>
    /\ printed = {}
    /\ panicked = ""

\* editFile is called with original
EditStart ==
    /\ pc \in {"resolve", "off"}
    /\ original \in Originals
    /\ orig0 = original
    /\ current = <<>>
    /\ patchOps = <<>>
    /\ name = 0
    /\ newData = <<>>
    /\ fileErr = FALSE
    /\ fs = [n \in Names |-> NoFile]
    /\ result = NoResult
    /\ sharedLoopVar = FALSE
    /\ attempts = 0 /\ launches = 0 /\ reads = 0 /\ diffs = 0
    /\ diffArgs = <<>>
    /\ edited = <<>>
    /\ promptAt = 0
    /\ saidNo = FALSE
    /\ commentPrompts = 0
    /\ comment = ""
    /\ warnings = 0
    /\ failed = ""
    /\ val = NoLine

Init == EditStart /\ pc = "resolve" /\ Edit2Off /\ DeleteOff

\* a fatal error: the call fails and editFile returns its error
Fatal(call) ==
    /\ pc' = "done"
    /\ result' = ReturnErr(call)
    /\ failed' = call

\* Resolve with the return of line 91 missing
ResolveNoReturn ==
    /\ pc = "resolve"
    /\ pc' = "createTemp"
    /\ current' = original
    /\ \/ failed' = "resolve"
       \/ UNCHANGED failed
    /\ UNCHANGED <<original, patchOps, name, newData, fileErr, fs, result,
                   sharedLoopVar, orig0, attempts, launches, reads, diffs,
                   diffArgs, edited, promptAt, saidNo, commentPrompts, comment,
                   warnings,
                   val, otherVars>>

\* lines 86-96: resolve the editor with "command -v", then current := original
Resolve ==
    /\ pc = "resolve"
    /\ \/ /\ Fatal("resolve")
          /\ UNCHANGED current
       \/ /\ pc' = "createTemp"
          /\ current' = original
          /\ UNCHANGED <<result, failed>>
    /\ UNCHANGED <<original, patchOps, name, newData, fileErr, fs, sharedLoopVar,
                   orig0, attempts, launches, reads, diffs, diffArgs, edited,
                   promptAt, saidNo, commentPrompts, comment, warnings,
                   val, otherVars>>

\* iterations of the loop explored
IterationCap == IF pc2 = "off" THEN MaxAttempts ELSE ConcAttempts

\* a scratch file under one fixed name
FixedName(files) == 1

\* line 98, ioutil.TempFile("/tmp", "ldc"): the file is created under a
\* name no file of /tmp has
FreshName(files) ==
    CHOOSE n \in Names :
        /\ files[n] = NoFile
        /\ \A m \in Names : m < n => files[m] # NoFile

\* lines 98-103: ioutil.TempFile creates an empty file under a fresh name
TempFile ==
    /\ pc = "createTemp"
    /\ attempts < IterationCap
    /\ attempts' = attempts + 1
    /\ \/ /\ Fatal("tempfile")
          /\ UNCHANGED <<name, fs>>
       \/ /\ name' = FreshName(fs)
          /\ fs' = [fs EXCEPT ![FreshName(fs)] = <<>>]
          /\ pc' = "write"
          /\ UNCHANGED <<result, failed>>
    /\ UNCHANGED <<original, current, patchOps, newData, fileErr, sharedLoopVar,
                   orig0, launches, reads, diffs, diffArgs, edited, promptAt,
                   saidNo, commentPrompts, comment, warnings,
                   val, otherVars>>

\* lines 104-108: file.Write(current); a failed write leaves a part of it
WriteFile ==
    /\ pc = "write"
    /\ \/ /\ Fatal("write")
          /\ \E part \in Prefixes(current) : fs' = [fs EXCEPT ![name] = part]
       \/ /\ fs' = [fs EXCEPT ![name] = current]
          /\ pc' = "close"
          /\ UNCHANGED <<result, failed>>
    /\ UNCHANGED <<original, current, patchOps, name, newData, fileErr,
                   sharedLoopVar, orig0, attempts, launches, reads, diffs,
                   diffArgs, edited, promptAt, saidNo, commentPrompts, comment,
                   warnings,
                   val, otherVars>>

\* lines 109-112: file.Close()
CloseFile ==
    /\ pc = "close"
    /\ \/ Fatal("close")
       \/ /\ pc' = "start"
          /\ UNCHANGED <<result, failed>>
    /\ UNCHANGED <<original, current, patchOps, name, newData, fileErr, fs,
                   sharedLoopVar, orig0, attempts, launches, reads, diffs,
                   diffArgs, edited, promptAt, saidNo, commentPrompts, comment,
                   warnings,
                   val, otherVars>>

\* StartProcess with the return of line 116 missing
StartProcessNoReturn ==
    /\ pc = "start"
    /\ launches' = launches + 1
    /\ pc' = "wait"
    /\ \/ failed' = "start"
       \/ UNCHANGED failed
    /\ UNCHANGED <<original, current, patchOps, name, newData, fileErr, fs,
                   result, sharedLoopVar, orig0, attempts, reads, diffs,
                   diffArgs, edited, promptAt, saidNo, commentPrompts, comment,
                   warnings,
                   val, otherVars>>

\* lines 114-117: os.StartProcess(editorPath, {editor, name})
StartProcess ==
    /\ pc = "start"
    /\ launches' = launches + 1
    /\ \/ Fatal("start")
       \/ /\ pc' = "wait"
          /\ UNCHANGED <<result, failed>>
    /\ UNCHANGED <<original, current, patchOps, name, newData, fileErr, fs,
                   sharedLoopVar, orig0, attempts, reads, diffs, diffArgs,
                   edited, promptAt, saidNo, commentPrompts, comment, warnings,
                   val, otherVars>>

\* lines 118-121: proc.Wait(); meanwhile the user saves some text, or none
Wait ==
    /\ pc = "wait"
    /\ \E text \in EditorOutputs \cup {fs[name]} :
          /\ fs' = [fs EXCEPT ![name] = text]
          /\ edited' = text
    /\ \/ Fatal("wait")
       \/ /\ pc' = "open"
          /\ UNCHANGED <<result, failed>>
    /\ UNCHANGED <<original, current, patchOps, name, newData, fileErr,
                   sharedLoopVar, orig0, attempts, launches, reads, diffs,
                   diffArgs, promptAt, saidNo, commentPrompts, comment, warnings,
                   val, otherVars>>

\* lines 123-126: os.Open(name)
OpenFile ==
    /\ pc = "open"
    /\ \/ Fatal("open")
       \/ /\ pc' = "read"
          /\ UNCHANGED <<result, failed>>
    /\ UNCHANGED <<original, current, patchOps, name, newData, fileErr, fs,
                   sharedLoopVar, orig0, attempts, launches, reads, diffs,
                   diffArgs, edited, promptAt, saidNo, commentPrompts, comment,
                   warnings,
                   val, otherVars>>

\* line 128: newData, fileErr := ioutil.ReadAll(file)
ReadAll ==
    /\ pc = "read"
    /\ reads' = reads + 1
    /\ \/ /\ newData' = fs[name]
          /\ fileErr' = FALSE
       \/ /\ newData' \in PartialReads(fs[name])
          /\ fileErr' = TRUE
    /\ pc' = "remove"
    /\ UNCHANGED <<original, current, patchOps, name, fs, result, sharedLoopVar,
                   orig0, attempts, launches, diffs, diffArgs, edited, promptAt,
                   saidNo, commentPrompts, comment, warnings, failed,
                   val, otherVars>>

\* Remove with a failed delete returned as an error
RemoveFatal ==
    /\ pc = "remove"
    /\ \/ /\ fs' = [fs EXCEPT ![name] = NoFile]
          /\ IF fileErr
             THEN pc' = "tryAgain" /\ promptAt' = attempts
             ELSE pc' = "closeRead" /\ UNCHANGED promptAt
          /\ UNCHANGED <<warnings, result, failed>>
       \/ /\ warnings' = warnings + 1
          /\ Fatal("remove")
          /\ UNCHANGED <<fs, promptAt>>
    /\ UNCHANGED <<original, current, patchOps, name, newData, fileErr,
                   sharedLoopVar, orig0, attempts, launches, reads, diffs,
                   diffArgs, edited, saidNo, commentPrompts, comment,
                   val, otherVars>>

\* lines 130-137: os.Remove(name), a failure only prints a warning; then a
\* failed read prints "Try again? [y]/n"
Remove ==
    /\ pc = "remove"
    /\ \/ /\ fs' = [fs EXCEPT ![name] = NoFile]
          /\ UNCHANGED warnings
       \/ /\ warnings' = warnings + 1
          /\ UNCHANGED fs
    /\ IF fileErr
       THEN pc' = "tryAgain" /\ promptAt' = attempts
       ELSE pc' = "closeRead" /\ UNCHANGED promptAt
    /\ UNCHANGED <<original, current, patchOps, name, newData, fileErr, result,
                   sharedLoopVar, orig0, attempts, launches, reads, diffs,
                   diffArgs, edited, saidNo, commentPrompts, comment, failed,
                   val, otherVars>>

\* line 193, yesOrNo: val := c.ReadLine()
ReadLine ==
    /\ pc \in {"tryAgain", "makeChanges"}
    /\ val = NoLine
    /\ val' \in Lines
    /\ UNCHANGED <<pc, original, current, patchOps, name, newData, fileErr, fs,
                   result, sharedLoopVar, orig0, attempts, launches, reads,
                   diffs, diffArgs, edited, promptAt, saidNo, commentPrompts,
                   comment, warnings, failed, otherVars>>

\* TryAgain with the break of line 140 missing
TryAgainNoBreak ==
    /\ pc = "tryAgain"
    /\ val # NoLine
    /\ val' = NoLine
    /\ pc' = "closeRead"
    /\ saidNo' = (saidNo \/ ~yesOrNo(val))
    /\ UNCHANGED <<original, current, patchOps, name, newData, fileErr, fs,
                   result, sharedLoopVar, orig0, attempts, launches, reads,
                   diffs, diffArgs, edited, promptAt, commentPrompts, comment,
                   warnings, failed,
                   otherVars>>

\* lines 138-141: if !yesOrNo(c) { break }
TryAgain ==
    /\ pc = "tryAgain"
    /\ val # NoLine
    /\ val' = NoLine
    /\ IF yesOrNo(val)
       THEN pc' = "closeRead" /\ UNCHANGED saidNo
       ELSE pc' = "afterLoop" /\ saidNo' = TRUE
    /\ UNCHANGED <<original, current, patchOps, name, newData, fileErr, fs,
                   result, sharedLoopVar, orig0, attempts, launches, reads,
                   diffs, diffArgs, edited, promptAt, commentPrompts, comment,
                   warnings, failed,
                   otherVars>>

\* lines 143-145: file.Close() of the file read
CloseRead ==
    /\ pc = "closeRead"
    /\ \/ Fatal("closeRead")
       \/ /\ pc' = "diff"
          /\ UNCHANGED <<result, failed>>
    /\ UNCHANGED <<original, current, patchOps, name, newData, fileErr, fs,
                   sharedLoopVar, orig0, attempts, launches, reads, diffs,
                   diffArgs, edited, promptAt, saidNo, commentPrompts, comment,
                   warnings,
                   val, otherVars>>

\* CreatePatch called with the bytes of the last scratch file as its base
DiffFromCurrent(orig, cur, nd) == <<cur, nd>>
\* CreatePatch called with its arguments exchanged
DiffSwapped(orig, cur, nd) == <<nd, orig>>

\* line 147: the two documents handed to jsonpatch.CreatePatch
DiffArgs(orig, cur, nd) == <<orig, nd>>

\* lines 147-155 and 164: patchOps, err = CreatePatch(...); on an error
\* patchOps = nil and "Make changes? [y]/n" is printed, otherwise break
Diff ==
    /\ pc = "diff"
    /\ LET docs == DiffArgs(original, current, newData)
           res == CreatePatch(docs[1], docs[2])
       IN  /\ diffArgs' = docs
           /\ diffs' = diffs + 1
           /\ IF res.err # ""
              THEN /\ patchOps' = <<>>
                   /\ pc' = "makeChanges"
                   /\ promptAt' = attempts
              ELSE /\ patchOps' = res.ops
                   /\ pc' = "afterLoop"
                   /\ UNCHANGED promptAt
    /\ UNCHANGED <<original, current, name, newData, fileErr, fs, result,
                   sharedLoopVar, orig0, attempts, launches, reads, edited,
                   saidNo, commentPrompts, comment, warnings, failed,
                   val, otherVars>>

\* the assignment of line 160 missing
ReseedKeeps(cur, nd) == cur

\* line 160: current = newData
Reseed(cur, nd) == nd

\* MakeChanges with a cap of two iterations on the loop
MakeChangesCapped ==
    /\ pc = "makeChanges"
    /\ val # NoLine
    /\ val' = NoLine
    /\ IF yesOrNo(val) /\ attempts < 2
          THEN /\ current' = Reseed(current, newData)
               /\ pc' = "createTemp"
               /\ UNCHANGED saidNo
          ELSE /\ pc' = "afterLoop"
               /\ saidNo' = ~yesOrNo(val)
               /\ UNCHANGED current
    /\ UNCHANGED <<original, patchOps, name, newData, fileErr, fs, result,
                   sharedLoopVar, orig0, attempts, launches, reads, diffs,
                   diffArgs, edited, promptAt, commentPrompts, comment,
                   warnings, failed,
                   otherVars>>

\* lines 156-161: if !yesOrNo(c) { break }; current = newData; continue
MakeChanges ==
    /\ pc = "makeChanges"
    /\ val # NoLine
    /\ val' = NoLine
    /\ IF yesOrNo(val)
          THEN /\ current' = Reseed(current, newData)
               /\ pc' = "createTemp"
               /\ UNCHANGED saidNo
          ELSE /\ pc' = "afterLoop"
               /\ saidNo' = TRUE
               /\ UNCHANGED current
    /\ UNCHANGED <<original, patchOps, name, newData, fileErr, fs, result,
                   sharedLoopVar, orig0, attempts, launches, reads, diffs,
                   diffArgs, edited, promptAt, commentPrompts, comment,
                   warnings, failed,
                   otherVars>>

\* lines 171-178: one PatchOperation per op, Value: &op.Value.  When the
\* build shares op between the iterations, every Value points at the same
\* variable, which holds the value of the last op once the loop is over.
Assemble(ops, shared) ==
    [i \in 1..Len(ops) |->
        [op |-> ops[i].op, path |-> ops[i].path,
         value |-> IF shared THEN ops[Len(ops)].value ELSE ops[i].value]]

\* the test of line 167 missing
NothingToSendNever(ops) == FALSE

\* line 167: the test that ends editFile without a patch
NothingToSend(ops) == Len(ops) = 0

\* lines 167-180: return nil, nil without operations; otherwise build the
\* PatchComment and print "Enter comment: "
AfterLoop ==
    /\ pc = "afterLoop"
    /\ IF NothingToSend(patchOps)
       THEN /\ pc' = "done"
            /\ result' = ReturnNil
            /\ UNCHANGED commentPrompts
       ELSE /\ pc' = "comment"
            /\ commentPrompts' = commentPrompts + 1
            /\ UNCHANGED result
    /\ UNCHANGED <<original, current, patchOps, name, newData, fileErr, fs,
                   sharedLoopVar, orig0, attempts, launches, reads, diffs,
                   diffArgs, edited, promptAt, saidNo, comment, warnings, failed,
                   val, otherVars>>

\* the comment with its surrounding blanks cut off
CommentTrimmed(line) == IF line = " y" THEN "y" ELSE line

\* line 181: the comment stored is the line read
CommentOf(line) == line

\* lines 181-182: patchComment.Comment = c.ReadLine(); return &patchComment
ReadComment ==
    /\ pc = "comment"
    /\ sharedLoopVar' \in BOOLEAN
    /\ \E line \in Lines :
          /\ comment' = line
          /\ result' = ReturnPatch(Assemble(patchOps, sharedLoopVar'), CommentOf(line))
    /\ pc' = "done"
    /\ UNCHANGED <<original, current, patchOps, name, newData, fileErr, fs,
                   orig0, attempts, launches, reads, diffs,
                   diffArgs, edited, promptAt, saidNo, commentPrompts, warnings,
                   failed,
                   val, otherVars>>

Next ==
    \/ Resolve \/ TempFile \/ WriteFile \/ CloseFile \/ StartProcess \/ Wait
    \/ OpenFile \/ ReadAll \/ Remove \/ ReadLine \/ TryAgain \/ CloseRead \/ Diff
    \/ MakeChanges \/ AfterLoop \/ ReadComment

Spec == Init /\ [][Next]_vars


\* ------------------------------------------- a second editFile beside it
\* The second call of editFile is followed along the run in which every
\* call succeeds and the user answers "n" to "Make changes?" and gives an
\* empty comment.  Its locals are its own; /tmp (fs) is shared.
Original2 == DocSmall
\* what the second user can leave in the second scratch file
EditorOutputs2 == {DocA, DocB, DocCut}

\* the locals of the first editFile: all its variables but the file system
editLocals == <<pc, original, current, patchOps, name, newData, fileErr,
                result, sharedLoopVar, orig0, attempts, launches, reads, diffs,
                diffArgs, edited, promptAt, saidNo, commentPrompts, comment,
                warnings, failed, val>>

Edit2Start ==
    /\ pc2 = "createTemp"
    /\ name2 = 0
    /\ newData2 = <<>>
    /\ edited2 = <<>>
    /\ result2 = NoResult

\* lines 98-103 in the second editFile
TempFile2 ==
    /\ pc2 = "createTemp"
    /\ name2' = FreshName(fs)
    /\ fs' = [fs EXCEPT ![FreshName(fs)] = <<>>]
    /\ pc2' = "write"
    /\ UNCHANGED <<newData2, edited2, result2, editLocals, delVars>>

\* lines 104-117 in the second editFile: its original is written to its
\* scratch file, the file is closed and the editor is started on it
WriteFile2 ==
    /\ pc2 = "write"
    /\ fs' = [fs EXCEPT ![name2] = Original2]
    /\ pc2' = "wait"
    /\ UNCHANGED <<name2, newData2, edited2, result2, editLocals, delVars>>

\* lines 118-126 in the second editFile: the second user saves some text
Wait2 ==
    /\ pc2 = "wait"
    /\ \E text \in EditorOutputs2 :
          /\ fs' = [fs EXCEPT ![name2] = text]
          /\ edited2' = text
    /\ pc2' = "read"
    /\ UNCHANGED <<name2, newData2, result2, editLocals, delVars>>

\* line 128 in the second editFile
ReadAll2 ==
    /\ pc2 = "read"
    /\ newData2' = fs[name2]
    /\ pc2' = "remove"
    /\ UNCHANGED <<name2, edited2, result2, fs, editLocals, delVars>>

\* lines 130-133 in the second editFile
Remove2 ==
    /\ pc2 = "remove"
    /\ fs' = [fs EXCEPT ![name2] = NoFile]
    /\ pc2' = "diff"
    /\ UNCHANGED <<name2, newData2, edited2, result2, editLocals, delVars>>

\* what editFile returns for the candidate nd of original orig when the
\* user declines to edit again and gives an empty comment
Returns(orig, nd) ==
    LET res == CreatePatch(orig, nd)
    IN  IF res.err # "" \/ NothingToSend(res.ops)
        THEN {ReturnNil}
        ELSE {ReturnPatch(Assemble(res.ops, shared), CommentOf("")) :
                 shared \in BOOLEAN}

\* lines 147-182 in the second editFile
Finish2 ==
    /\ pc2 = "diff"
    /\ result2' \in Returns(Original2, newData2)
    /\ pc2' = "done"
    /\ UNCHANGED <<name2, newData2, edited2, fs, editLocals, delVars>>

Next2 == TempFile2 \/ WriteFile2 \/ Wait2 \/ ReadAll2 \/ Remove2 \/ Finish2

\* the first editFile is handed DocA, the second one Original2
ConcInit ==
    EditStart /\ pc = "resolve" /\ original = DocA /\ Edit2Start /\ DeleteOff
ConcNext == Next \/ Next2
ConcSpec == ConcInit /\ [][ConcNext]_vars


\* ---------------------------------------------------------- deleteProject
ProjectKeys == {"p", "q", "r"}
\* the arguments of "project delete": none, a key, or a key of no project
ArgLists == {<<>>} \cup {<<k>> : k \in ProjectKeys \cup {"nosuch"}}
\* the projects listed: distinct keys
ProjectLists ==
    {l \in UNION {[1..n -> ProjectKeys] : n \in 0..MaxProjects} :
        \A i, j \in 1..Len(l) : i # j => l[i] # l[j]}

\* "project delete" is entered
DeleteStart ==
    /\ dpc = "getProjectArg"
    /\ projects \in ProjectLists
    /\ args \in ArgLists
    /\ interactive \in BOOLEAN
    /\ project = Nil
    /\ keyReads = 0
    /\ confirms = 0
    /\ deleteCalls = <<>>
    /\ printed = {}
    /\ panicked = ""

\* lines 139-144: the project whose key is k, nil when there is none
FindProject(list, k) ==
    IF \E i \in 1..Len(list) : list[i] = k THEN k ELSE Nil

\* lines 130-159, getProjectArg: the project named by the argument, or the
\* one chosen from the list; nil when listing fails or no project matches
GetProjectArg ==
    /\ dpc = "getProjectArg"
    /\ \/ /\ project' = Nil
          /\ printed' = printed \cup {"error"}
          /\ dpc' = "check"
          /\ UNCHANGED panicked
       \/ /\ Len(args) > 0
          /\ project' = FindProject(projects, args[1])
          /\ printed' = IF FindProject(projects, args[1]) = Nil
                        THEN printed \cup {"does not exist"} ELSE printed
          /\ dpc' = "check"
          /\ UNCHANGED panicked
       \/ /\ Len(args) = 0
          /\ \E choice \in -1..(Len(projects) - 1) :
                IF choice = -1
                THEN /\ panicked' = "index out of range"
                     /\ dpc' = "done"
                     /\ UNCHANGED project
                ELSE /\ project' = projects[choice + 1]
                     /\ dpc' = "check"
                     /\ UNCHANGED panicked
          /\ UNCHANGED printed
    /\ UNCHANGED <<projects, args, interactive, keyReads, confirms, deleteCalls>>
    /\ UNCHANGED <<editVars, w2Vars>>

\* line 192: the test after which deleteProject returns at once
ReturnsEarly(p) == p # Nil

\* lines 192-203 of deleteProject: the early return; then confirmDelete with
\* project.Key, a nil project panics there; then the DeleteProject call
DeleteProject ==
    /\ dpc = "check"
    /\ dpc' = "done"
    /\ IF ReturnsEarly(project)
       THEN UNCHANGED <<keyReads, confirms, deleteCalls, printed, panicked>>
       ELSE IF project = Nil
            THEN /\ keyReads' = keyReads + 1
                 /\ panicked' = "nil pointer dereference"
                 /\ UNCHANGED <<confirms, deleteCalls, printed>>
            ELSE /\ keyReads' = keyReads + 1
                 /\ confirms' = confirms + 1
                 /\ UNCHANGED panicked
                 /\ \/ /\ deleteCalls' = Append(deleteCalls, project)
                       /\ printed' = printed \cup {"deleted"}
                    \/ /\ deleteCalls' = Append(deleteCalls, project)
                       /\ printed' = printed \cup {"error"}
    /\ UNCHANGED <<projects, args, interactive, project>>
    /\ UNCHANGED <<editVars, w2Vars>>

DeleteNext == GetProjectArg \/ DeleteProject

\* no editFile runs while "project delete" does
DeleteInit == EditStart /\ pc = "off" /\ original = DocA /\ Edit2Off /\ DeleteStart

DeleteSpec == DeleteInit /\ [][DeleteNext]_vars

\* ------------------------------------------------------------ properties

\* C1: when editFile has returned and no delete call failed, no scratch
\* file is left, whichever way editFile returned.
C1_ScratchRemovedOnReturn ==
    (pc = "done" /\ warnings = 0) => \A n \in Names : fs[n] = NoFile

\* C2: when the user answered no at a retry prompt, editFile returns the
\* aborted error.
C2_NoReturnsAborted ==
    (pc = "done" /\ saidNo) => result = ReturnErr("aborted")

\* C3: once the user has answered no at a retry prompt, the loop is left,
\* no PatchComment is returned and the comment prompt is never shown.
C3_NoPatchAfterNo ==
    saidNo => /\ pc \in {"afterLoop", "done"}
              /\ result.kind # "patch"
              /\ commentPrompts = 0
C3_Witness ==
    saidNo /\ pc = "done" /\ attempts >= 2 /\ diffs >= 1

\* the loop was left by the break of line 164
LeftByDiff ==
    pc \in {"afterLoop", "comment", "done"} /\ failed = "" /\ ~saidNo /\ diffs > 0

\* C4: a returned PatchComment has at least one operation; when the diff of
\* the original against the candidate is empty, editFile returns nil, nil
\* and "Enter comment: " is never printed.
C4_NoEmptyPatch ==
    /\ result.kind = "patch" => Len(result.patch) > 0
    /\ (LeftByDiff /\ CreatePatch(orig0, newData).ops = <<>>)
          => /\ commentPrompts = 0
             /\ pc # "comment"
             /\ (pc = "done" => result = ReturnNil)
C4_Witness ==
    /\ LeftByDiff /\ pc = "done"
    /\ newData # orig0
    /\ CreatePatch(orig0, newData) = [err |-> "", ops |-> <<>>]
    /\ result = ReturnNil

\* C5: the parameter original never changes, and every diff is computed
\* from the bytes editFile was called with to the bytes just read back.
C5_DiffFromOriginal ==
    /\ original = orig0
    /\ diffs > 0 => diffArgs[1] = orig0
    /\ (diffs > 0 /\ diffs = reads) => diffArgs = <<orig0, newData>>
C5_Witness ==
    /\ diffs >= 2 /\ diffs = reads
    /\ current # orig0 /\ current # newData
    /\ diffArgs = <<orig0, newData>>

FirstAttempt(orig, edit, line, shared) ==
    ReturnPatch(Assemble(CreatePatch(orig, edit).ops, shared), line)

\* C7: the PatchComment returned after any number of rejected edits is the
\* one a run returns whose first edit is the accepted one.
C7_RetriesDoNotChangePatch ==
    (pc = "done" /\ result.kind = "patch") =>
        /\ result = FirstAttempt(orig0, newData, comment, sharedLoopVar)
        /\ ~fileErr => newData = edited
C7_Witness ==
    /\ pc = "done" /\ result.kind = "patch" /\ attempts = 3
    /\ ~fileErr /\ edited = DocB

\* C8: an iteration whose read failed never goes on to the diff: after the
\* prompt it either starts a new iteration or leaves the loop, and no patch
\* is returned from the bytes of a failed read.
C8_ReadFailureSkipsDiff ==
    fileErr => /\ pc \notin {"closeRead", "diff", "makeChanges", "comment"}
               /\ result.kind # "patch"

\* C9: a failure to load the scratch file and a failure of the diff are
\* never returned as an error.
C9_RecoverableNotReturned ==
    result.kind = "error" =>
        result.err \notin {"open", "read", "Invalid JSON Document"}

\* C10: when os.StartProcess or proc.Wait fails, editFile returns that
\* error at once: no prompt, read, diff or launch follows in that iteration.
C10_LaunchFailureIsFatal ==
    failed \in {"start", "wait"} =>
        /\ pc = "done"
        /\ result = ReturnErr(failed)
        /\ promptAt < attempts
        /\ reads = attempts - 1
        /\ diffs = attempts - 1
        /\ launches = attempts
C10_Witness ==
    failed = "wait" /\ pc = "done" /\ attempts = 2 /\ promptAt = 1

\* C11: when the editor cannot be resolved, editFile returns the error
\* before any scratch file, editor launch or prompt.
C11_ResolveFailureFirst ==
    failed = "resolve" =>
        /\ pc = "done"
        /\ result = ReturnErr("resolve")
        /\ attempts = 0 /\ launches = 0
        /\ promptAt = 0 /\ commentPrompts = 0
        /\ \A n \in Names : fs[n] = NoFile
C11_Witness ==
    failed = "resolve" /\ pc = "done" /\ result.kind = "error"

\* C12: the returned PatchComment holds the operations of the diff, in
\* order, each with the op, path and value of the diff's operation.
C12_PatchIsDiff ==
    result.kind = "patch" =>
        /\ Len(result.patch) = Len(patchOps)
        /\ \A i \in 1..Len(patchOps) :
              /\ result.patch[i].op = patchOps[i].op
              /\ result.patch[i].path = patchOps[i].path
              /\ result.patch[i].value = patchOps[i].value

\* C13: a yes after a rejected candidate always starts another iteration;
\* the loop is left only by a fatal error, a no or a successful diff; and
\* once the loop is left editFile returns: a step is always possible, the
\* steps lead through the comment prompt to the return, none leads back.
C13_NoRetryCap ==
    [][/\ (pc = "makeChanges" /\ val # NoLine /\ ~saidNo') =>
              (pc' = "createTemp" /\ result' = result)
       /\ pc' = "afterLoop" =>
              (saidNo' \/ (pc = "diff" /\ CreatePatch(orig0, newData).err = ""))
       /\ (pc' = "done" /\ pc \notin {"afterLoop", "comment"}) => failed' # ""
       /\ pc = "afterLoop" => pc' \in {"comment", "done"}
       /\ pc = "comment" => pc' = "done"
       /\ pc' = "afterLoop" => (ENABLED AfterLoop)'
       /\ pc' = "comment" => (ENABLED ReadComment)']_vars
C13_Witness ==
    /\ attempts = MaxAttempts /\ diffs = MaxAttempts
    /\ pc = "done" /\ result.kind = "patch"

\* C15: a failed delete of the scratch file changes nothing but the
\* warning: editFile goes on exactly as after a successful delete, and no
\* error returned comes from the delete.
C15_DeleteFailureHarmless ==
    /\ [][pc = "remove" =>
            /\ pc' = (IF fileErr THEN "tryAgain" ELSE "closeRead")
            /\ UNCHANGED <<original, current, patchOps, newData, fileErr,
                           result, saidNo, failed, comment>>]_vars
    /\ [](result.kind = "error" => result.err # "remove")
C15_Witness ==
    warnings > 0 /\ pc = "done" /\ result.kind = "patch" /\ fs[name] # NoFile

\* C16: "Enter comment: " is printed once in a run that ends with a
\* non-empty diff and never otherwise; the comment returned is the line
\* entered, an empty line included.
C16_CommentOnce ==
    /\ commentPrompts <= 1
    /\ commentPrompts = 1 <=>
          (pc \in {"comment", "done"} /\ LeftByDiff /\ Len(patchOps) > 0)
    /\ pc = "done" =>
          /\ result.kind = "patch" <=> commentPrompts = 1
          /\ result.kind = "patch" => result.comment = comment
C16_Witness ==
    /\ pc = "done" /\ result.kind = "patch"
    /\ comment = "" /\ result.comment = ""

\* the lines that count as yes
YesLines == {"", "y", "Y"}

\* C14: yesOrNo answers yes exactly for the empty line and for a line whose
\* lowercase form is "y"; "yes", "n" and " y" are answered as no.
C14_YesOrNo ==
    [][(val # NoLine /\ val' = NoLine) =>
          /\ val \in YesLines <=> pc' \in {"closeRead", "createTemp"}
          /\ val \notin YesLines <=> (pc' = "afterLoop" /\ saidNo')]_vars
C14_Witness ==
    pc = "makeChanges" /\ val = " y" /\ attempts = 2

\* the key a path points at
KeyOfPath(p) == CHOOSE k \in Keys : PathOf(k) = p

\* one operation applied to a document: add sets the member, replace and
\* remove need the member to be there
ApplyOp(doc, o) ==
    LET k == KeyOfPath(o.path)
        others == {q \in doc.obj : q[1] # k}
    IN  IF ~doc.ok THEN doc
        ELSE IF o.op = "add"
             THEN [ok |-> TRUE, obj |-> others \cup {<<k, o.value>>}]
        ELSE IF k \notin KeysOf(doc.obj)
             THEN [ok |-> FALSE, obj |-> doc.obj]
        ELSE IF o.op = "replace"
             THEN [ok |-> TRUE, obj |-> others \cup {<<k, o.value>>}]
             ELSE [ok |-> TRUE, obj |-> others]

\* the operations ops[i..] applied in order
RECURSIVE ApplyFrom(_, _, _)
ApplyFrom(doc, ops, i) ==
    IF i > Len(ops) THEN doc ELSE ApplyFrom(ApplyOp(doc, ops[i]), ops, i + 1)

\* C18: the operations of a successful diff, applied in order to the
\* original document, give the candidate document; for {"name":"a",
\* "key":"k"} and {"name":"b","key":"k"} the diff is the single operation
\* replace /name "b".
C18_PatchTransforms ==
    LeftByDiff =>
        /\ ApplyFrom(Unmarshal(orig0), patchOps, 1) = Unmarshal(newData)
        /\ (orig0 = DocA /\ Unmarshal(newData) = Unmarshal(DocB)) =>
              patchOps = <<[op |-> "replace", path |-> "/name", value |-> "b"]>>
C18_Witness ==
    /\ LeftByDiff /\ orig0 = DocA /\ newData = DocB
    /\ patchOps = <<[op |-> "replace", path |-> "/name", value |-> "b"]>>

\* C19: "project delete key" with the key of a listed project issues the
\* DeleteProject call for that key and reports the deletion.
C19_DeletesExistingProject ==
    (dpc = "done" /\ Len(args) > 0 /\ FindProject(projects, args[1]) # Nil
        /\ "error" \notin printed)
      => (deleteCalls = <<args[1]>> /\ "deleted" \in printed)

\* C20: when getProjectArg returns no project, deleteProject returns
\* without reading project.Key, asking for confirmation or calling
\* DeleteProject.
C20_MissingProjectUnused ==
    (dpc = "done" /\ project = Nil /\ panicked # "index out of range") =>
        /\ keyReads = 0
        /\ confirms = 0
        /\ deleteCalls = <<>>
        /\ panicked = ""

\* an editFile holds a scratch file from TempFile until Remove
Holds1 == pc \in {"write", "close", "start", "wait", "open", "read", "remove"}
Holds2 == pc2 \in {"write", "wait", "read", "remove"}

\* C17: two editFile workflows interleaved use each its own scratch file
\* in every iteration: while both hold one the names differ, what each
\* finds in its file and reads from it is what its own editor saved, and
\* the result of the second is the result of its own original and its
\* own editor output.
C17_OwnScratchFile ==
    /\ (Holds1 /\ Holds2) => name # name2
    /\ pc \in {"open", "read"} => fs[name] = edited
    /\ pc2 = "read" => fs[name2] = edited2
    /\ (pc = "remove" /\ ~fileErr) => newData = edited
    /\ pc2 \in {"remove", "diff", "done"} => newData2 = edited2
    /\ pc2 = "done" => result2 \in Returns(Original2, edited2)
    /\ (pc = "afterLoop" /\ ~saidNo) =>
           patchOps = CreatePatch(orig0, edited).ops

\* both workflows hold a scratch file, the first one in its second iteration
C17_Witness ==
    /\ pc = "read" /\ attempts = 2
    /\ pc2 = "read"
    /\ edited # edited2

====
